---- MODULE Spec2Model ----
(***************************************************************************)
(* Model of the data-analysis core of backend_data:                        *)
(*   src/src/routes/data_analysis.py  analyze_data, generate_chart         *)
(* A DataFrame is a row count and an ordered sequence of named, typed      *)
(* columns.  analyze_data and generate_chart are pure functions of their   *)
(* arguments; each specification draws the arguments in its initial state  *)
(* and applies the function in one step.                                   *)
(***************************************************************************)
EXTENDS Integers, Sequences, FiniteSets, TLC

VARIABLES df, analysis, chart_config, chart, pc

vars == <<df, analysis, chart_config, chart, pc>>

(***************************************************************************)
(* Bounds of the model.                                                    *)
(***************************************************************************)
MaxCols == 4
MaxRows == 22
MaxStatRows == 3
MaxChartCols == 2

(***************************************************************************)
(* Constants of the program.                                               *)
(***************************************************************************)
ScatterMinNumeric == 2
HistogramLimit == 3
BarLimit == 2
BarMaxCategories == 20
PieMaxCategories == 10

(***************************************************************************)
(* Cells.  A cell is a tagged value; the tag "nan" is the missing marker   *)
(* (NaN / None / NaT), "fin" a finite number, "inf" a signed infinity      *)
(* (v = 1 or -1), "str" a text value, "bool" a boolean, "ts" a timestamp.  *)
(***************************************************************************)
Cell(k, v) == [k |-> k, v |-> v]
NaN == Cell("nan", 0)
isnull(c) == c.k = "nan"

(***************************************************************************)
(* float64 results.  A finite value is the rational n/d (d > 0); the       *)
(* special values follow IEEE 754: inf - inf = nan, nan is absorbing and   *)
(* compares false with everything.  (The same value may be written with    *)
(* several n/d; values are compared with FLe, never with =.)               *)
(***************************************************************************)
Fin(n, d) == [k |-> "fin", n |-> n, d |-> d]
FInf(s) == [k |-> "inf", n |-> s, d |-> 1]
FNaN == [k |-> "nan", n |-> 0, d |-> 1]
None == [k |-> "None", n |-> 0, d |-> 1]
ToF(c) == [k |-> c.k, n |-> c.v, d |-> 1]

FNeg(a) == [a EXCEPT !.n = 0 - a.n]

FAdd(a, b) ==
    IF a.k = "nan" \/ b.k = "nan" THEN FNaN
    ELSE IF a.k = "inf" /\ b.k = "inf" THEN (IF a.n = b.n THEN a ELSE FNaN)
    ELSE IF a.k = "inf" THEN a
    ELSE IF b.k = "inf" THEN b
    ELSE IF a.d = b.d THEN Fin(a.n + b.n, a.d)
    ELSE Fin(a.n * b.d + b.n * a.d, a.d * b.d)

FSub(a, b) == FAdd(a, FNeg(b))

FSq(a) ==
    IF a.k = "nan" THEN FNaN
    ELSE IF a.k = "inf" THEN FInf(1)
    ELSE Fin(a.n * a.n, a.d * a.d)

\* division by a positive count
FDivInt(a, c) ==
    IF a.k = "fin" THEN Fin(a.n, a.d * c) ELSE a

FLe(a, b) ==
    IF a.k = "nan" \/ b.k = "nan" THEN FALSE
    ELSE IF a.k = "inf" THEN (a.n = -1 \/ (b.k = "inf" /\ b.n = 1))
    ELSE IF b.k = "inf" THEN b.n = 1
    ELSE a.n * b.d <= b.n * a.d

\* float(x) if not pd.isna(x) else None
FloatOrNone(x) == IF x.k = "nan" THEN None ELSE x

\* the sum of s[1..i], added left to right
RECURSIVE FSumTo(_, _)
FSumTo(s, i) == IF i = 0 THEN Fin(0, 1) ELSE FAdd(FSumTo(s, i - 1), s[i])

FSum(s) == FSumTo(s, Len(s))

(***************************************************************************)
(* Series operations of pandas used by analyze_data (all skip missing      *)
(* values).                                                                *)
(***************************************************************************)
NonMissing(cells) == SelectSeq(cells, LAMBDA c : ~isnull(c))

isnull_sum(cells) == Cardinality({i \in DOMAIN cells : isnull(cells[i])})

nunique(cells) == Cardinality({cells[i] : i \in {j \in DOMAIN cells : ~isnull(cells[j])}})

\* the least / greatest of s[1..i] (s non-empty, without nan)
RECURSIVE FMinTo(_, _)
FMinTo(s, i) ==
    IF i = 1 THEN s[1]
    ELSE LET m == FMinTo(s, i - 1) IN IF FLe(s[i], m) THEN s[i] ELSE m

RECURSIVE FMaxTo(_, _)
FMaxTo(s, i) ==
    IF i = 1 THEN s[1]
    ELSE LET m == FMaxTo(s, i - 1) IN IF FLe(m, s[i]) THEN s[i] ELSE m

\* the non-missing values of a series, as floats
Values(cells) ==
    LET nm == NonMissing(cells) IN [i \in DOMAIN nm |-> ToF(nm[i])]

SeriesMin(cells) ==
    LET vs == Values(cells) IN IF vs = <<>> THEN FNaN ELSE FMinTo(vs, Len(vs))

SeriesMax(cells) ==
    LET vs == Values(cells) IN IF vs = <<>> THEN FNaN ELSE FMaxTo(vs, Len(vs))

MeanOf(vs) == IF Len(vs) = 0 THEN FNaN ELSE FDivInt(FSum(vs), Len(vs))

SeriesMean(cells) == MeanOf(Values(cells))

\* the sample variance (ddof = 1) of the values vs with mean avg
VarOf(vs, avg) ==
    IF Len(vs) - 1 <= 0 THEN FNaN
    ELSE FDivInt(FSum([i \in DOMAIN vs |-> FSq(FSub(avg, vs[i]))]), Len(vs) - 1)

\* Series.std() is the square root of the sample variance; the model keeps
\* the variance, StdSq: std is nan exactly when it is, and std >= 0 exactly
\* when StdSq >= 0.
SeriesStdSq(cells) ==
    LET vs == Values(cells) IN VarOf(vs, MeanOf(vs))

(***************************************************************************)
(* DataFrame helpers.                                                      *)
(***************************************************************************)
NumberDtypes == {"int64", "float64", "int32", "float32"}
columns_of(d) == [i \in DOMAIN d.cols |-> d.cols[i].name]
ColumnSet(d) == {d.cols[i].name : i \in DOMAIN d.cols}
Col(d, name) == d.cols[CHOOSE i \in DOMAIN d.cols : d.cols[i].name = name]

\* df.select_dtypes(include=[...]).columns.tolist(): table order is kept
select_dtypes(d, include) ==
    LET picked == SelectSeq(d.cols, LAMBDA c : c.dtype \in include)
    IN [i \in DOMAIN picked |-> picked[i].name]

Prefix(s, n) == SubSeq(s, 1, IF Len(s) < n THEN Len(s) ELSE n)

(***************************************************************************)
(* analyze_data                                                            *)
(***************************************************************************)
EmptyAnalysis ==
    [summary |-> <<>>, columns |-> <<>>, suggested_charts |-> <<>>, insights |-> <<>>]

\* mutant: counts the rows that hold a missing value, not the cells
TotalMissing_Rows(d) ==
    Cardinality({j \in 1..d.nrows : \E i \in DOMAIN d.cols : isnull(d.cols[i].cells[j])})

\* int(df.isnull().sum().sum())
TotalMissing(d) ==
    Cardinality({<<i, j>> \in (DOMAIN d.cols) \X (1..d.nrows) : isnull(d.cols[i].cells[j])})

\* mutant: the row count taken from the first column
Summary_FirstColumnRows(d) ==
    [rows |-> IF d.cols = <<>> THEN 0 ELSE Len(d.cols[1].cells),
     columns |-> Len(d.cols),
     missing_values |-> TotalMissing(d),
     data_types |-> [n \in ColumnSet(d) |-> Col(d, n).dtype]]

Summary(d) ==
    [rows |-> d.nrows,
     columns |-> Len(d.cols),
     missing_values |-> TotalMissing(d),
     data_types |-> [n \in ColumnSet(d) |-> Col(d, n).dtype]]

HasStats(c) == c.dtype \in {"int64", "float64"}

col_info(c) ==
    IF HasStats(c)
    THEN [type |-> c.dtype,
          missing |-> isnull_sum(c.cells),
          unique_values |-> nunique(c.cells),
          min |-> FloatOrNone(SeriesMin(c.cells)),
          max |-> FloatOrNone(SeriesMax(c.cells)),
          mean |-> FloatOrNone(SeriesMean(c.cells)),
          std |-> FloatOrNone(SeriesStdSq(c.cells))]
    ELSE [type |-> c.dtype,
          missing |-> isnull_sum(c.cells),
          unique_values |-> nunique(c.cells)]

ColumnAnalysis(d) == [n \in ColumnSet(d) |-> col_info(Col(d, n))]

numeric_cols(d) == select_dtypes(d, NumberDtypes)
categorical_cols(d) == select_dtypes(d, {"object"})

NumericPairCharts(num) ==
    IF Len(num) >= ScatterMinNumeric
    THEN << [type |-> "scatter", title |-> <<"Scatter Plot: ", num[1], " vs ", num[2]>>,
             x_column |-> num[1], y_column |-> num[2]],
            [type |-> "correlation_heatmap", title |-> <<"Correlation Heatmap">>,
             columns |-> num],
            [type |-> "line", title |-> <<"Line Plot: ", num[1], " vs ", num[2]>>,
             x_column |-> num[1], y_column |-> num[2]],
            [type |-> "area", title |-> <<"Area Plot: ", num[1], " vs ", num[2]>>,
             x_column |-> num[1], y_column |-> num[2]] >>
    ELSE <<>>

HistogramCharts(num) ==
    IF Len(num) >= 1
    THEN [i \in DOMAIN Prefix(num, HistogramLimit) |->
             [type |-> "histogram", title |-> <<"Distribution of ", num[i]>>, column |-> num[i]]]
    ELSE <<>>

\* mutant: the cap excludes 20
BarCharts_Strict(d, cat) ==
    LET first == Prefix(cat, BarLimit)
        kept == SelectSeq(first, LAMBDA c : nunique(Col(d, c).cells) < BarMaxCategories)
    IN [i \in DOMAIN kept |->
           [type |-> "bar", title |-> <<"Count by ", kept[i]>>, column |-> kept[i]]]

BarCharts(d, cat) ==
    LET first == Prefix(cat, BarLimit)
        kept == SelectSeq(first, LAMBDA c : nunique(Col(d, c).cells) <= BarMaxCategories)
    IN [i \in DOMAIN kept |->
           [type |-> "bar", title |-> <<"Count by ", kept[i]>>, column |-> kept[i]]]

\* mutant: the pie uses the bar's cap
PieCharts_BarCap(d, cat) ==
    IF nunique(Col(d, cat[1]).cells) <= BarMaxCategories
    THEN << [type |-> "pie", title |-> <<"Proportion by ", cat[1]>>, column |-> cat[1]] >>
    ELSE <<>>

PieCharts(d, cat) ==
    IF nunique(Col(d, cat[1]).cells) <= PieMaxCategories
    THEN << [type |-> "pie", title |-> <<"Proportion by ", cat[1]>>, column |-> cat[1]] >>
    ELSE <<>>

CategoricalCharts(d, cat) ==
    IF Len(cat) >= 1 THEN BarCharts(d, cat) \o PieCharts(d, cat) ELSE <<>>

BoxCharts(num, cat) ==
    IF Len(cat) >= 1 /\ Len(num) >= 1
    THEN << [type |-> "box", title |-> <<num[1], " by ", cat[1]>>,
             x_column |-> cat[1], y_column |-> num[1]] >>
    ELSE <<>>

\* mutant: the histograms are appended before the scatter group
SuggestedCharts_HistogramsFirst(d) ==
    LET num == numeric_cols(d)
        cat == categorical_cols(d)
    IN HistogramCharts(num) \o NumericPairCharts(num)
         \o CategoricalCharts(d, cat) \o BoxCharts(num, cat)

SuggestedCharts(d) ==
    LET num == numeric_cols(d)
        cat == categorical_cols(d)
    IN NumericPairCharts(num) \o HistogramCharts(num)
         \o CategoricalCharts(d, cat) \o BoxCharts(num, cat)

NumericInsight(num) ==
    IF Len(num) > 0
    THEN << <<"Dataset contains ", Len(num), " numeric columns suitable for statistical analysis.">> >>
    ELSE <<>>

CategoricalInsight(cat) ==
    IF Len(cat) > 0
    THEN << <<"Dataset contains ", Len(cat), " categorical columns for grouping and segmentation.">> >>
    ELSE <<>>

MissingInsight(missing_values) ==
    IF missing_values > 0
    THEN << <<"Dataset has ", missing_values, " missing values that may need attention.">> >>
    ELSE <<>>

\* mutant: the demo's unconditional correlation sentence is appended
Insights_WithStub(d, summary) ==
    NumericInsight(numeric_cols(d)) \o CategoricalInsight(categorical_cols(d))
        \o MissingInsight(summary.missing_values)
        \o << <<"Strong correlation expected between Age, Experience, and Salary.">> >>

Insights(d, summary) ==
    NumericInsight(numeric_cols(d)) \o CategoricalInsight(categorical_cols(d))
        \o MissingInsight(summary.missing_values)

analyze_data(d) ==
    LET summary == Summary(d)
    IN [summary |-> summary,
        columns |-> ColumnAnalysis(d),
        suggested_charts |-> SuggestedCharts(d),
        insights |-> Insights(d, summary)]

(***************************************************************************)
(* Input tables.                                                           *)
(***************************************************************************)
ColumnNames == <<"c1", "c2", "c3", "c4", "c5", "c6", "c7", "c8">>

\* n cells: the first m missing, the rest cycling through k distinct values
Cyc(n, kind, k, m) ==
    [i \in 1..n |-> IF i <= m THEN NaN ELSE Cell(kind, (i - m - 1) % k)]

ColumnChoices(n) ==
    { [dtype |-> "int64", cells |-> Cyc(n, "fin", n + 1, 0)],
      [dtype |-> "float64", cells |-> Cyc(n, "fin", 3, 1)],
      [dtype |-> "int32", cells |-> Cyc(n, "fin", 2, 0)],
      [dtype |-> "bool", cells |-> Cyc(n, "bool", 2, 0)],
      [dtype |-> "datetime64[ns]", cells |-> Cyc(n, "ts", n + 1, 2)],
      [dtype |-> "object", cells |-> Cyc(n, "str", 10, 0)],
      [dtype |-> "object", cells |-> Cyc(n, "str", 11, 1)],
      [dtype |-> "object", cells |-> Cyc(n, "str", 20, 1)],
      [dtype |-> "object", cells |-> Cyc(n, "str", 21, 0)] }

MakeTable(n, f) ==
    [nrows |-> n,
     cols |-> [i \in DOMAIN f |-> [name |-> ColumnNames[i], dtype |-> f[i].dtype, cells |-> f[i].cells]]]

RowCounts == {0, 1, MaxRows}

\* the tables of the profiling path: any row count with no columns, and
\* 1..MaxCols columns of 0, 1 or MaxRows rows
IsTable(d) ==
    \/ \E n \in 0..MaxRows : d = MakeTable(n, <<>>)
    \/ \E n \in RowCounts : \E w \in 1..MaxCols :
          \E f \in [1..w -> ColumnChoices(n)] : d = MakeTable(n, f)

(***************************************************************************)
(* generate_chart.  A chart_config is a JSON object: every key is absent   *)
(* or carries a value, [k, v] with k the JSON kind ("null", "str", "list") *)
(* and v the strings of the value.  The result is the figure's JSON, None, *)
(* or an exception that leaves generate_chart.                             *)
(***************************************************************************)
Absent == [k |-> "absent", v |-> <<>>]
Null == [k |-> "null", v |-> <<>>]
Str(s) == [k |-> "str", v |-> <<s>>]
List(names) == [k |-> "list", v |-> names]

has_key(cfg, key) == cfg[key].k # "absent"

ChartNone == [kind |-> "None", type |-> "", title |-> <<>>, columns |-> <<>>]
KeyErrorRaised == [kind |-> "KeyError", type |-> "", title |-> <<>>, columns |-> <<>>]
Fig(t, cfg, used) == [kind |-> "chart", type |-> t, title |-> cfg["title"].v, columns |-> used]

\* a px argument: None stands for "not given", a string must name a column
NamesColumn(d, a) == a.k = "str" /\ a.v[1] \in ColumnSet(d)
PxArgOk(d, a) == a.k = "null" \/ NamesColumn(d, a)

\* px.scatter / px.line / px.area / px.box (df, x=..., y=..., title=...)
PxXY(d, cfg, t) ==
    IF ~has_key(cfg, "x_column") \/ ~has_key(cfg, "y_column") \/ ~has_key(cfg, "title")
    THEN {ChartNone}                                       \* KeyError, caught
    ELSE IF ~PxArgOk(d, cfg["x_column"]) \/ ~PxArgOk(d, cfg["y_column"])
    THEN {ChartNone}                                       \* ValueError, caught
    ELSE IF cfg["x_column"].k = "null" /\ cfg["y_column"].k = "null"
    THEN {Fig(t, cfg, columns_of(d)), ChartNone}           \* wide form: by the columns' types
    ELSE {Fig(t, cfg, cfg["x_column"].v \o cfg["y_column"].v)}

\* px.histogram(df, x=chart_config['column'], title=...)
PxHistogram(d, cfg) ==
    IF ~has_key(cfg, "column") \/ ~has_key(cfg, "title")
    THEN {ChartNone}
    ELSE IF ~PxArgOk(d, cfg["column"])
    THEN {ChartNone}
    ELSE IF cfg["column"].k = "null"
    THEN {Fig("histogram", cfg, columns_of(d)), ChartNone}
    ELSE {Fig("histogram", cfg, cfg["column"].v)}

\* df[chart_config['column']].value_counts(), then px.bar / px.pie
ValueCountsChart(d, cfg, t) ==
    IF ~has_key(cfg, "column") \/ ~has_key(cfg, "title")
    THEN {ChartNone}
    ELSE IF ~NamesColumn(d, cfg["column"])
    THEN {ChartNone}                                       \* df[...] raises KeyError
    ELSE {Fig(t, cfg, cfg["column"].v)}

\* df[chart_config['columns']].select_dtypes(include=[np.number]).corr(), px.imshow
CorrelationHeatmap(d, cfg) ==
    LET cols == cfg["columns"]
        numeric == SelectSeq(cols.v, LAMBDA n : Col(d, n).dtype \in NumberDtypes)
    IN IF ~has_key(cfg, "columns") \/ ~has_key(cfg, "title")
       THEN {ChartNone}
       ELSE IF cols.k = "null" \/ \E i \in DOMAIN cols.v : cols.v[i] \notin ColumnSet(d)
       THEN {ChartNone}                                    \* df[...] raises KeyError
       ELSE IF cols.k = "str"
       THEN {ChartNone}                                    \* a Series has no select_dtypes
       ELSE IF numeric = <<>>
       THEN {Fig("correlation_heatmap", cfg, numeric), ChartNone}  \* empty matrix
       ELSE {Fig("correlation_heatmap", cfg, numeric)}

XYTypes == {"scatter", "line", "area", "box"}

\* the body of the try block, for a chart_type that was read
TryBlock(d, cfg, chart_type) ==
    IF chart_type \in XYTypes THEN PxXY(d, cfg, chart_type)
    ELSE IF chart_type = "histogram" THEN PxHistogram(d, cfg)
    ELSE IF chart_type \in {"bar", "pie"} THEN ValueCountsChart(d, cfg, chart_type)
    ELSE IF chart_type = "correlation_heatmap" THEN CorrelationHeatmap(d, cfg)
    ELSE {ChartNone}

\* the set of results generate_chart(df, chart_config) can end with
generate_chart(d, cfg) ==
    IF ~has_key(cfg, "type")
    THEN {KeyErrorRaised}                                  \* chart_config['type'], before the try
    ELSE TryBlock(d, cfg, cfg["type"].v[1])

(***************************************************************************)
(* Inputs of the rendering path.                                           *)
(***************************************************************************)
ChartTypes == {"scatter", "histogram", "bar", "box", "correlation_heatmap", "line", "area", "pie"}

TypeValues == {Absent} \cup {Str(t) : t \in ChartTypes \cup {"treemap"}}
TitleValues == {Absent, Str("My chart")}
BindingValues == {Absent, Null, Str("c1"), Str("zz")}
ColumnsValues ==
    {Absent, Null, Str("c1"), List(<<>>), List(<<"c1">>), List(<<"c2">>),
     List(<<"c1", "c2">>), List(<<"c1", "zz">>)}

ChartConfigs ==
    [type : TypeValues, title : TitleValues, x_column : BindingValues,
     y_column : BindingValues, column : BindingValues, columns : ColumnsValues]

ChartColumnChoices ==
    { [dtype |-> "int64", cells |-> Cyc(2, "fin", 2, 0)],
      [dtype |-> "object", cells |-> Cyc(2, "str", 2, 0)] }

IsChartTable(d) ==
    \E w \in 0..MaxChartCols : \E f \in [1..w -> ChartColumnChoices] : d = MakeTable(2, f)

(***************************************************************************)
(* Inputs of the numeric statistics: one int64 or float64 column of up to  *)
(* MaxStatRows cells.  An int64 column holds no missing value; a float64   *)
(* column holds finite values, NaN and the infinities.                     *)
(***************************************************************************)
StatInts == {Cell("fin", -2), Cell("fin", 0), Cell("fin", 3)}
StatFloats == StatInts \cup {NaN, Cell("inf", 1), Cell("inf", -1)}

IsStatTable(d) ==
    \E n \in 0..MaxStatRows :
       \/ \E cells \in [1..n -> StatInts] :
             d = MakeTable(n, << [dtype |-> "int64", cells |-> cells] >>)
       \/ \E cells \in [1..n -> StatFloats] :
             d = MakeTable(n, << [dtype |-> "float64", cells |-> cells] >>)

(***************************************************************************)
(* Specifications.  Spec: a table is loaded and analyze_data runs on it.   *)
(* SpecStats: the same, over the tables of the numeric statistics.         *)
(* SpecChart: a table is loaded and generate_chart runs on a chart_config. *)
(***************************************************************************)
EmptyConfig ==
    [type |-> Absent, title |-> Absent, x_column |-> Absent,
     y_column |-> Absent, column |-> Absent, columns |-> Absent]
NoChart == [kind |-> "not run", type |-> "", title |-> <<>>, columns |-> <<>>]

Start ==
    /\ analysis = EmptyAnalysis
    /\ chart_config = EmptyConfig
    /\ chart = NoChart
    /\ pc = "loaded"

Init == IsTable(df) /\ Start

InitStats == IsStatTable(df) /\ Start

InitChart == IsChartTable(df) /\ Start

AnalyzeData ==
    /\ pc = "loaded"
    /\ analysis' = analyze_data(df)
    /\ pc' = "analyzed"
    /\ UNCHANGED <<df, chart_config, chart>>

GenerateChart ==
    /\ pc = "loaded"
    /\ \E cfg \in ChartConfigs :
          /\ chart_config' = cfg
          /\ chart' \in generate_chart(df, cfg)
    /\ pc' = "rendered"
    /\ UNCHANGED <<df, analysis>>

Next == AnalyzeData

NextChart == GenerateChart

Spec == Init /\ [][Next]_vars

SpecStats == InitStats /\ [][Next]_vars

SpecChart == InitChart /\ [][NextChart]_vars

(***************************************************************************)
(* Properties.                                                             *)
(***************************************************************************)
num == numeric_cols(df)
cat == categorical_cols(df)
charts == analysis.suggested_charts

\* a suggestion without its title: its type and its column bindings
Bindings(s) == [key \in (DOMAIN s) \ {"title"} |-> s[key]]
ChartBindings == [i \in DOMAIN charts |-> Bindings(charts[i])]
OfType(t) == SelectSeq(charts, LAMBDA s : s.type = t)
Positions(t) == {i \in DOMAIN charts : charts[i].type = t}

\* the distinct non-missing values of a column of the table
Distinct(name) ==
    LET cells == Col(df, name).cells
    IN Cardinality({c \in {cells[i] : i \in DOMAIN cells} : c # NaN})

XY(t, x, y) == [type |-> t, x_column |-> x, y_column |-> y]
One(t, c) == [type |-> t, column |-> c]

Rule1 ==
    IF Len(num) >= 2
    THEN << XY("scatter", num[1], num[2]),
            [type |-> "correlation_heatmap", columns |-> num],
            XY("line", num[1], num[2]),
            XY("area", num[1], num[2]) >>
    ELSE <<>>

Rule2 == [i \in 1..(IF Len(num) < 3 THEN Len(num) ELSE 3) |-> One("histogram", num[i])]

Rule3Bars ==
    LET firstTwo == [i \in 1..(IF Len(cat) < 2 THEN Len(cat) ELSE 2) |-> cat[i]]
        small == SelectSeq(firstTwo, LAMBDA c : Distinct(c) <= 20)
    IN [i \in DOMAIN small |-> One("bar", small[i])]

Rule3Pie ==
    IF Len(cat) >= 1 /\ Distinct(cat[1]) <= 10 THEN << One("pie", cat[1]) >> ELSE <<>>

Rule4 ==
    IF Len(cat) >= 1 /\ Len(num) >= 1 THEN << XY("box", cat[1], num[1]) >> ELSE <<>>

\* C1: the suggestion list is exactly rule 1, rule 2, rule 3 (bars, then
\* pie), rule 4 in this order; with fewer than 2 numeric columns there is no
\* scatter, line, area or correlation_heatmap suggestion.
C1_SuggestionOrder ==
    pc = "analyzed" =>
        /\ ChartBindings = Rule1 \o Rule2 \o Rule3Bars \o Rule3Pie \o Rule4
        /\ Len(num) < 2 =>
              \A i \in DOMAIN charts :
                 charts[i].type \notin {"scatter", "line", "area", "correlation_heatmap"}

C1_Witness ==
    /\ pc = "analyzed"
    /\ Len(num) >= 3
    /\ Len(charts) = 10
    /\ charts[1].type = "scatter"
    /\ charts[10].type = "box"

\* C2: a column gets a bar suggestion iff it is one of the first 2
\* categorical columns and has at most 20 distinct non-missing values; a
\* column gets at most one bar.
C2_BarCap ==
    pc = "analyzed" =>
        /\ \A i \in DOMAIN cat :
              (\E j \in Positions("bar") : charts[j].column = cat[i])
                 <=> (i <= 2 /\ Distinct(cat[i]) <= 20)
        /\ \A j \in Positions("bar") : \E i \in DOMAIN cat : charts[j].column = cat[i]
        /\ \A j, k \in Positions("bar") : charts[j].column = charts[k].column => j = k

C2_Witness ==
    /\ pc = "analyzed"
    /\ Len(cat) >= 3
    /\ Distinct(cat[1]) = 21
    /\ Distinct(cat[2]) = 20
    /\ Distinct(cat[3]) <= 20
    /\ Len(OfType("bar")) = 1
    /\ OfType("bar")[1].column = cat[2]

\* C3: exactly one pie, for the first categorical column, iff that column
\* exists and has at most 10 distinct non-missing values; the pie follows
\* every bar and precedes the box.
C3_Pie ==
    pc = "analyzed" =>
        /\ [i \in DOMAIN OfType("pie") |-> Bindings(OfType("pie")[i])]
              = (IF Len(cat) >= 1 /\ Distinct(cat[1]) <= 10
                 THEN << One("pie", cat[1]) >> ELSE <<>>)
        /\ \A p \in Positions("pie") :
              /\ \A b \in Positions("bar") : b < p
              /\ \A b \in Positions("box") : p < b

C3_Witness ==
    /\ pc = "analyzed"
    /\ Len(cat) >= 2
    /\ Distinct(cat[1]) = 10
    /\ Distinct(cat[2]) = 21
    /\ Len(OfType("bar")) = 1
    /\ Len(OfType("pie")) = 1
    /\ Len(OfType("box")) = 1

RECURSIVE SumMissing(_)
SumMissing(names) ==
    IF names = {} THEN 0
    ELSE LET n == CHOOSE x \in names : TRUE
         IN analysis.columns[n].missing + SumMissing(names \ {n})

\* C4: summary.missing_values is the sum of columns[c].missing over all
\* columns of the returned profile.
C4_MissingTotal ==
    pc = "analyzed" =>
        /\ DOMAIN analysis.columns = ColumnSet(df)
        /\ analysis.summary.missing_values = SumMissing(DOMAIN analysis.columns)

C4_Witness ==
    /\ pc = "analyzed"
    /\ Cardinality({n \in DOMAIN analysis.columns : analysis.columns[n].missing > 0}) >= 3
    /\ \E n \in DOMAIN analysis.columns : analysis.columns[n].missing = 0
    /\ analysis.summary.missing_values >= 4

\* C7: a table with zero columns and any row count is profiled without
\* error: 0 columns, the table's row count, empty columns mapping, no
\* suggestion, no insight.
C7_ZeroColumns ==
    (pc = "analyzed" /\ Len(df.cols) = 0) =>
        /\ analysis.summary.columns = 0
        /\ analysis.summary.rows = df.nrows
        /\ analysis.summary.missing_values = 0
        /\ DOMAIN analysis.columns = {}
        /\ analysis.suggested_charts = <<>>
        /\ analysis.insights = <<>>

C7_Witness ==
    /\ pc = "analyzed"
    /\ Len(df.cols) = 0
    /\ df.nrows > 1
    /\ analysis.summary.rows = df.nrows

\* C10: the insights are, in this order and nothing else, the numeric
\* sentence iff numeric_cols is non-empty, the categorical sentence iff
\* categorical_cols is non-empty, the missing-values sentence iff the total
\* missing count is positive, each stating its own count.
C10_Insights ==
    pc = "analyzed" =>
        analysis.insights =
            (IF Len(num) # 0
             THEN << <<"Dataset contains ", Len(num),
                       " numeric columns suitable for statistical analysis.">> >>
             ELSE <<>>)
            \o (IF Len(cat) # 0
                THEN << <<"Dataset contains ", Len(cat),
                          " categorical columns for grouping and segmentation.">> >>
                ELSE <<>>)
            \o (IF analysis.summary.missing_values >= 1
                THEN << <<"Dataset has ", analysis.summary.missing_values,
                          " missing values that may need attention.">> >>
                ELSE <<>>)

C10_Witness ==
    /\ pc = "analyzed"
    /\ Len(num) = 2
    /\ Len(cat) = 1
    /\ analysis.summary.missing_values = 3
    /\ Len(analysis.insights) = 3

\* the names of the columns of the table that satisfy P, in table order
NamesWhere(P(_)) ==
    LET picked == SelectSeq(df.cols, P) IN [i \in DOMAIN picked |-> picked[i].name]
Occurrences(names, n) == Cardinality({i \in DOMAIN names : names[i] = n})

\* C8: numeric_cols and categorical_cols partition the columns: every
\* column, whatever its storage type, is in exactly one of the two lists,
\* numeric_cols holds the numeric ones and categorical_cols all the others,
\* each in table order.
C8_Partition ==
    pc = "analyzed" =>
        /\ \A n \in ColumnSet(df) : Occurrences(num, n) + Occurrences(cat, n) = 1
        /\ num = NamesWhere(LAMBDA c : c.dtype \in {"int64", "float64", "int32", "float32"})
        /\ cat = NamesWhere(LAMBDA c : c.dtype \notin {"int64", "float64", "int32", "float32"})

NonMissingCount(name) ==
    LET cells == Col(df, name).cells IN Cardinality({i \in DOMAIN cells : cells[i] # NaN})
Zero == Fin(0, 1)

\* C9: for every column profiled with numeric statistics, min, max and mean
\* are null iff the column has no non-missing value, std is null iff it has
\* fewer than 2; when defined, min <= mean <= max and std >= 0.
C9_NumericStats ==
    pc = "analyzed" =>
        \A n \in DOMAIN analysis.columns :
           LET info == analysis.columns[n]
           IN "min" \in DOMAIN info =>
                /\ (info.min = None) <=> (NonMissingCount(n) = 0)
                /\ (info.max = None) <=> (NonMissingCount(n) = 0)
                /\ (info.mean = None) <=> (NonMissingCount(n) = 0)
                /\ (info.std = None) <=> (NonMissingCount(n) < 2)
                /\ (info.min # None /\ info.mean # None /\ info.max # None)
                      => (FLe(info.min, info.mean) /\ FLe(info.mean, info.max))
                /\ info.std # None => FLe(Zero, info.std)

\* C5: generate_chart ends with a chart description or a rendering
\* failure, whatever the chart_config; no exception leaves it.
C5_NeverRaises ==
    pc = "rendered" => chart.kind \in {"chart", "None"}

\* the bindings a chart type requires
Required(t) ==
    IF t \in {"scatter", "line", "area", "box"} THEN {"x_column", "y_column"}
    ELSE IF t \in {"histogram", "bar", "pie"} THEN {"column"}
    ELSE {"columns"}

\* the binding is present and every column it names is in the table
Bound(key) ==
    /\ chart_config[key].k \in {"str", "list"}
    /\ \A i \in DOMAIN chart_config[key].v : chart_config[key].v[i] \in ColumnSet(df)

\* the binding is absent, or names a column that is not in the table
LacksOrMisnames(key) ==
    \/ chart_config[key].k = "absent"
    \/ \E i \in DOMAIN chart_config[key].v : chart_config[key].v[i] \notin ColumnSet(df)

\* C6: for every chart type, a config that lacks a required binding or
\* names a column that is not in the table gets a rendering failure, and a
\* description is obtained only with every required binding naming
\* existing columns.
C6_BindingsValidated ==
    (pc = "rendered" /\ chart_config["type"].k = "str" /\ chart_config["type"].v[1] \in ChartTypes) =>
        LET req == Required(chart_config["type"].v[1])
        IN /\ (\E key \in req : LacksOrMisnames(key)) => chart.kind = "None"
           /\ chart.kind = "chart" => \A key \in req : Bound(key)

\* C11: a column's profile carries min, max, mean and std iff the column is
\* in numeric_cols; no column of a numeric storage type lacks them, and no
\* non-numeric column carries them.
C11_NumericTestsAgree ==
    pc = "analyzed" =>
        \A n \in DOMAIN analysis.columns :
           ({"min", "max", "mean", "std"} \subseteq DOMAIN analysis.columns[n])
              <=> (\E i \in DOMAIN num : num[i] = n)

====
